---- MODULE Spec2Model ----
(***************************************************************************)
(* esthree: a promise-returning facade over a callback-style S3 client.    *)
(* Model of src/lib/bucket.js: the Bucket class (seven entry operations)   *)
(* and the four container-level functions create, get, has and remove.     *)
(*                                                                         *)
(* The state is the JavaScript state the library touches: the Bucket       *)
(* objects it constructs, the caller's options objects, one record per     *)
(* call (the promise the call returned together with the callback closure  *)
(* it handed to the client), and the most recent event at the boundary     *)
(* with the client: a request going out, or a callback coming in.          *)
(***************************************************************************)
EXTENDS Integers, Sequences, FiniteSets, TLC

VARIABLES
    handles,    \* the Bucket objects constructed so far: <<[client, bucket]>>
    heap,       \* the caller's options objects, by reference
    calls,      \* one record per operation call, in call order
    last        \* the last event: a call with its outgoing request, or a callback

vars == <<handles, heap, calls, last>>

\* The number of operation calls of one run.
MaxCalls == 2

(***************************************************************************)
(* JavaScript values                                                       *)
(***************************************************************************)
Null == [t |-> "null"]
Undefined == [t |-> "undefined"]
Error(m) == [t |-> "Error", message |-> m]
Data(d) == [t |-> "object", v |-> d]
Bool(b) == [t |-> "boolean", b |-> b]
Ref(h) == [t |-> "Bucket", ref |-> h]

\* ToBoolean, as `err ? ... : ...` and `!err` apply it.
Truthy(v) == /\ v.t \notin {"null", "undefined"}
             /\ (v.t = "boolean" => v.b)

\* What the backend reports for an absent container or entry, and another failure.
NotFound == Error("NotFound")
AccessDenied == Error("AccessDenied")

\* What a client method that throws synchronously throws.
Thrown == Error("TypeError")

\* The (err, data) pairs a client may hand to a callback: success with a
\* result, with null, with no arguments at all; failure, with or without data.
CallbackArgs ==
    {<<Null, Data("ETag:abc")>>, <<Null, Null>>, <<Undefined, Undefined>>,
     <<NotFound, Null>>, <<AccessDenied, Null>>, <<NotFound, Data("ETag:abc")>>}

Clients == {"s3"}
Buckets == {"mine", "other"}
Keys == {"x.txt", "y.txt"}
Bodies == {"Hello World!"}

\* The options objects the caller owns. "none" stands for an omitted argument.
EmptyOpts == << >>
InitialHeap ==
    [o1 |-> [Bucket |-> "other", Key |-> "k0", CopySource |-> "other/s0",
             Body |-> "b0", Foo |-> "1"]]
OptsRefs == {"none"} \cup DOMAIN InitialHeap

\* The request fields each operation writes itself.
Reserved(op) ==
    CASE op \in {"create", "get", "has", "remove", "Bucket.location"} -> {"Bucket"}
      [] op = "Bucket.put" -> {"Bucket", "Key", "Body"}
      [] op = "Bucket.copy" -> {"Bucket", "Key", "CopySource"}
      [] OTHER -> {"Bucket", "Key"}

HasOps == {"has", "Bucket.has"}

(***************************************************************************)
(* Object spread and the Bucket constructor                                *)
(***************************************************************************)
\* {...opts, f1: v1, ...}: a new object with the own fields of opts and then
\* the listed fields, the later ones winning. The source object is only read.
\* (Object.assign(opts, fields) would write the fields into opts itself.)
SpreadAssign(opts, fields) == [target |-> fields @@ opts, source |-> fields @@ opts]
Spread(opts, fields) == [target |-> fields @@ opts, source |-> opts]

\* (A constructor that stores the client in both fields.)
BucketUnbound(client, bucket) == [client |-> client, bucket |-> client]

\* constructor(client, bucket)
Bucket(client, bucket) == [client |-> client, bucket |-> bucket]

(***************************************************************************)
(* The request each operation hands to the client                          *)
(***************************************************************************)
\* create: client.createBucket({...opts, Bucket: bucket}, cb)
createRequest(bucket, opts) == Spread(opts, [Bucket |-> bucket])

\* get: client.headBucket({...opts, Bucket: bucket}, cb)
getRequest(bucket, opts) == Spread(opts, [Bucket |-> bucket])

\* has: client.headBucket({...opts, Bucket: bucket}, cb)
hasRequest(bucket, opts) == Spread(opts, [Bucket |-> bucket])

\* remove: client.deleteBucket({...opts, Bucket: bucket}, cb)
removeRequest(bucket, opts) == Spread(opts, [Bucket |-> bucket])

\* location: this.client.getBucketLocation({...opts, Bucket: this.bucket}, cb)
Bucket_locationRequest(this, opts) == Spread(opts, [Bucket |-> this.bucket])

\* get: this.client.getObject({...opts, Bucket: this.bucket, Key: key}, cb)
Bucket_getRequest(this, key, opts) ==
    Spread(opts, [Bucket |-> this.bucket, Key |-> key])

\* has: this.client.headObject({...opts, Bucket: this.bucket, Key: key}, cb)
Bucket_hasRequest(this, key, opts) ==
    Spread(opts, [Bucket |-> this.bucket, Key |-> key])

\* head: this.client.headObject({...opts, Bucket: this.bucket, Key: key}, cb)
Bucket_headRequest(this, key, opts) ==
    Spread(opts, [Bucket |-> this.bucket, Key |-> key])

\* (put with the options spread last, so that they win.)
Bucket_putRequestOptsLast(this, key, body, opts) ==
    [target |-> opts @@ [Bucket |-> this.bucket, Key |-> key, Body |-> body],
     source |-> opts]

\* put: this.client.putObject({...opts, Bucket, Key: key, Body: body}, cb)
Bucket_putRequest(this, key, body, opts) ==
    Spread(opts, [Bucket |-> this.bucket, Key |-> key, Body |-> body])

\* remove: this.client.deleteObject({...opts, Bucket: this.bucket, Key: key}, cb)
Bucket_removeRequest(this, key, opts) ==
    Spread(opts, [Bucket |-> this.bucket, Key |-> key])

\* (copy with source and target taken for one another.)
Bucket_copyRequestSwapped(this, source, target, opts) ==
    Spread(opts, [Bucket |-> this.bucket, Key |-> source,
                  CopySource |-> this.bucket \o "/" \o target])

\* copy: this.client.copyObject({...opts, Bucket: this.bucket, Key: target,
\*                               CopySource: `${this.bucket}/${source}`}, cb)
Bucket_copyRequest(this, source, target, opts) ==
    Spread(opts, [Bucket |-> this.bucket, Key |-> target,
                  CopySource |-> this.bucket \o "/" \o source])

(***************************************************************************)
(* Promises                                                                *)
(***************************************************************************)
\* (The client method called before the promise exists: a throw reaches the caller.)
NewPromiseEscapes(threw, thrown) ==
    IF threw
    THEN [returned |-> FALSE, state |-> "none", value |-> thrown]
    ELSE [returned |-> TRUE, state |-> "pending", value |-> Undefined]

\* new Promise(executor): the executor runs at once and calls the client
\* method. A throw inside the executor rejects the promise with the thrown
\* value; the constructor itself returns the promise either way.
NewPromise(threw, thrown) ==
    IF threw
    THEN [returned |-> TRUE, state |-> "rejected", value |-> thrown]
    ELSE [returned |-> TRUE, state |-> "pending", value |-> Undefined]

\* (A deferred that takes every settlement, the last one winning.)
SettleAgain(c, fx) == [c EXCEPT !.state = fx.state, !.value = fx.value]

\* resolve(v) / reject(v) of a promise: they act on a pending promise only.
Settle(c, fx) ==
    IF c.state = "pending"
    THEN [c EXCEPT !.state = fx.state, !.value = fx.value]
    ELSE c

Resolve(v) == [state |-> "fulfilled", value |-> v, alloc |-> FALSE]
Reject(v) == [state |-> "rejected", value |-> v, alloc |-> FALSE]
\* resolve(new Bucket(client, bucket)): the value is the object allocated next.
ResolveNew == [state |-> "fulfilled", value |-> Ref(Len(handles) + 1), alloc |-> TRUE]

(***************************************************************************)
(* The four callbacks the operations hand to the client                    *)
(***************************************************************************)
\* (A data callback that wraps the error it is given.)
cbDataWrapped(err, data) ==
    IF Truthy(err) THEN Reject(Error("S3Error")) ELSE Resolve(data)

\* (A has callback that lets the error through.)
cbHasRejecting(err, data) ==
    IF Truthy(err) THEN Reject(err) ELSE Resolve(Bool(data # Null))

\* (A create/get callback that ignores the error and hands out a handle.)
cbBucketLenient(err) == ResolveNew

\* (err, data) => err ? reject(err) : resolve(data)
cbData(err, data) == IF Truthy(err) THEN Reject(err) ELSE Resolve(data)

\* err => err ? reject(err) : resolve()
cbVoid(err) == IF Truthy(err) THEN Reject(err) ELSE Resolve(Undefined)

\* (err, data) => resolve(!err && data !== null)
cbHas(err, data) == Resolve(Bool(~Truthy(err) /\ data # Null))

\* err => err ? reject(err) : resolve(new Bucket(client, bucket))
cbBucket(err) == IF Truthy(err) THEN Reject(err) ELSE ResolveNew

\* The callback of each operation.
CallbackOf(op, err, data) ==
    CASE op \in {"create", "get"} -> cbBucket(err)
      [] op \in {"has", "Bucket.has"} -> cbHas(err, data)
      [] op \in {"remove", "Bucket.remove"} -> cbVoid(err)
      [] OTHER -> cbData(err, data)

\* (resolve and reject kept in a variable the calls share: the latest call's.)
CallbackTargetLatest(i) == {Len(calls)}

\* The promises a callback's resolve and reject belong to: those of the
\* executor that created the callback, so the call's own promise.
CallbackTarget(i) == {i}

(***************************************************************************)
(* Calls                                                                   *)
(***************************************************************************)
\* The options object a call reads: the caller's, or a fresh {} by default.
OptsOf(o) == IF o = "none" THEN EmptyOpts ELSE heap[o]

NoCapture == [client |-> "", bucket |-> ""]

\* One operation call: the promise is constructed, its executor hands the
\* request `req.target` and the callback to `method` of `client`, which
\* either takes them or throws. `captured` is what the callback reads of
\* the call's scope (create and get: client and bucket).
Issue(op, client, this, bucket, a1, a2, o, method, req, captured, threw) ==
    LET p == NewPromise(threw, Thrown)
        id == Len(calls) + 1
    IN /\ Len(calls) < MaxCalls
       /\ calls' = Append(calls,
              [op |-> op, captured |-> captured, requests |-> 1,
               inflight |-> ~threw, invoked |-> FALSE, threw |-> threw,
               returned |-> p.returned, state |-> p.state, value |-> p.value])
       /\ heap' = IF o = "none" THEN heap ELSE [heap EXCEPT ![o] = req.source]
       /\ last' = [kind |-> "call", id |-> id, op |-> op, client |-> client,
                   this |-> this, bucket |-> bucket, a1 |-> a1, a2 |-> a2,
                   optsRef |-> o, opts |-> OptsOf(o), method |-> method,
                   params |-> req.target, threw |-> threw]
       /\ UNCHANGED handles

\* export function create(client, bucket, opts = {})
create ==
    \E client \in Clients, bucket \in Buckets, o \in OptsRefs, threw \in BOOLEAN :
        Issue("create", client, 0, bucket, "", "", o, "createBucket",
              createRequest(bucket, OptsOf(o)), [client |-> client, bucket |-> bucket], threw)

\* export function get(client, bucket, opts = {})
get ==
    \E client \in Clients, bucket \in Buckets, o \in OptsRefs, threw \in BOOLEAN :
        Issue("get", client, 0, bucket, "", "", o, "headBucket",
              getRequest(bucket, OptsOf(o)), [client |-> client, bucket |-> bucket], threw)

\* export function has(client, bucket, opts = {})
has ==
    \E client \in Clients, bucket \in Buckets, o \in OptsRefs, threw \in BOOLEAN :
        Issue("has", client, 0, bucket, "", "", o, "headBucket",
              hasRequest(bucket, OptsOf(o)), NoCapture, threw)

\* export function remove(client, bucket, opts = {})
remove ==
    \E client \in Clients, bucket \in Buckets, o \in OptsRefs, threw \in BOOLEAN :
        Issue("remove", client, 0, bucket, "", "", o, "deleteBucket",
              removeRequest(bucket, OptsOf(o)), NoCapture, threw)

\* Bucket.location(opts = {})
Bucket_location ==
    \E h \in DOMAIN handles, o \in OptsRefs, threw \in BOOLEAN :
        Issue("Bucket.location", handles[h].client, h, "", "", "", o, "getBucketLocation",
              Bucket_locationRequest(handles[h], OptsOf(o)), NoCapture, threw)

\* Bucket.get(key, opts = {})
Bucket_get ==
    \E h \in DOMAIN handles, key \in Keys, o \in OptsRefs, threw \in BOOLEAN :
        Issue("Bucket.get", handles[h].client, h, "", key, "", o, "getObject",
              Bucket_getRequest(handles[h], key, OptsOf(o)), NoCapture, threw)

\* Bucket.has(key, opts = {})
Bucket_has ==
    \E h \in DOMAIN handles, key \in Keys, o \in OptsRefs, threw \in BOOLEAN :
        Issue("Bucket.has", handles[h].client, h, "", key, "", o, "headObject",
              Bucket_hasRequest(handles[h], key, OptsOf(o)), NoCapture, threw)

\* Bucket.head(key, opts = {})
Bucket_head ==
    \E h \in DOMAIN handles, key \in Keys, o \in OptsRefs, threw \in BOOLEAN :
        Issue("Bucket.head", handles[h].client, h, "", key, "", o, "headObject",
              Bucket_headRequest(handles[h], key, OptsOf(o)), NoCapture, threw)

\* Bucket.put(key, body, opts = {})
Bucket_put ==
    \E h \in DOMAIN handles, key \in Keys, body \in Bodies, o \in OptsRefs,
       threw \in BOOLEAN :
        Issue("Bucket.put", handles[h].client, h, "", key, body, o, "putObject",
              Bucket_putRequest(handles[h], key, body, OptsOf(o)), NoCapture, threw)

\* Bucket.remove(key, opts = {})
Bucket_remove ==
    \E h \in DOMAIN handles, key \in Keys, o \in OptsRefs, threw \in BOOLEAN :
        Issue("Bucket.remove", handles[h].client, h, "", key, "", o, "deleteObject",
              Bucket_removeRequest(handles[h], key, OptsOf(o)), NoCapture, threw)

\* Bucket.copy(source, target, opts = {})
Bucket_copy ==
    \E h \in DOMAIN handles, source \in Keys, target \in Keys, o \in OptsRefs,
       threw \in BOOLEAN :
        Issue("Bucket.copy", handles[h].client, h, "", source, target, o, "copyObject",
              Bucket_copyRequest(handles[h], source, target, OptsOf(o)), NoCapture, threw)

(***************************************************************************)
(* The client invokes a callback it holds, for the first time or again     *)
(***************************************************************************)
Callback ==
    \E i \in DOMAIN calls, args \in CallbackArgs :
        LET c == calls[i]
            err == args[1]
            data == args[2]
            fx == CallbackOf(c.op, err, data)
            hit == {j \in CallbackTarget(i) \cap DOMAIN calls : calls[j].state = "pending"}
        IN /\ c.inflight
           /\ calls' = [j \in DOMAIN calls |->
                          LET s == IF j \in CallbackTarget(i) THEN Settle(calls[j], fx)
                                   ELSE calls[j]
                          IN IF j = i THEN [s EXCEPT !.invoked = TRUE] ELSE s]
           \* new Bucket(client, bucket): kept when the promise takes it as its value
           /\ handles' = IF fx.alloc /\ hit # {}
                         THEN Append(handles, Bucket(c.captured.client, c.captured.bucket))
                         ELSE handles
           /\ last' = [kind |-> "callback", id |-> i, err |-> err, data |-> data,
                       again |-> c.invoked]
           /\ UNCHANGED heap

Init ==
    /\ handles = << >>
    /\ heap = InitialHeap
    /\ calls = << >>
    /\ last = [kind |-> "init"]

Next ==
    \/ create
    \/ get
    \/ has
    \/ remove
    \/ Bucket_location
    \/ Bucket_get
    \/ Bucket_has
    \/ Bucket_head
    \/ Bucket_put
    \/ Bucket_remove
    \/ Bucket_copy
    \/ Callback

Spec == Init /\ [][Next]_vars

(***************************************************************************)
(* Properties                                                              *)
(***************************************************************************)
IsCall == last.kind = "call"
FirstCallback == last.kind = "callback" /\ ~last.again
AgainCallback == last.kind = "callback" /\ last.again

\* The container identifier a call is bound to: its bucket argument, or the
\* bucket of the handle it is invoked on.
BoundBucket == IF last.this = 0 THEN last.bucket ELSE handles[last.this].bucket

\* C1: a has call (container or entry level) whose probe is answered through
\* the callback never rejects: it is fulfilled with a boolean, false whenever
\* the callback carried an error, true only when it carried no error and a
\* result other than null.
C1_HasNeverRejects ==
    /\ \A i \in DOMAIN calls :
          (calls[i].op \in HasOps /\ ~calls[i].threw) =>
              /\ calls[i].state # "rejected"
              /\ calls[i].invoked => (calls[i].state = "fulfilled" /\ calls[i].value.t = "boolean")
    /\ (FirstCallback /\ calls[last.id].op \in HasOps) =>
          LET c == calls[last.id]
          IN /\ c.state = "fulfilled"
             /\ Truthy(last.err) => c.value = Bool(FALSE)
             /\ c.value = Bool(TRUE) => (~Truthy(last.err) /\ last.data # Null)
             /\ (~Truthy(last.err) /\ last.data # Null) => c.value = Bool(TRUE)

\* An entry-level has was answered with an error, and resolved to false.
W_C1 ==
    /\ FirstCallback
    /\ calls[last.id].op = "Bucket.has"
    /\ last.err = NotFound
    /\ calls[last.id].state = "fulfilled"
    /\ calls[last.id].value = Bool(FALSE)

\* C2: a handle returned by a successful create or get is bound to the
\* bucket argument of that call, and every request of an entry operation
\* invoked on the handle carries Bucket equal to that argument.
C2_HandleInjectsCreationBucket ==
    /\ \A i \in DOMAIN calls :
          (calls[i].op \in {"create", "get"} /\ calls[i].state = "fulfilled") =>
              /\ calls[i].value.t = "Bucket"
              /\ calls[i].value.ref \in DOMAIN handles
              /\ handles[calls[i].value.ref].bucket = calls[i].captured.bucket
    /\ (IsCall /\ last.op \in {"create", "get"}) =>
          calls[last.id].captured.bucket = last.bucket
    /\ (IsCall /\ last.this # 0) =>
          /\ "Bucket" \in DOMAIN last.params
          /\ \E i \in DOMAIN calls :
                /\ calls[i].op \in {"create", "get"}
                /\ calls[i].value = Ref(last.this)
                /\ last.params.Bucket = calls[i].captured.bucket

\* An entry operation on a handle for "mine" was given options naming another bucket.
W_C2 ==
    /\ IsCall
    /\ last.this # 0
    /\ handles[last.this].bucket = "mine"
    /\ last.optsRef = "o1"
    /\ last.opts.Bucket = "other"
    /\ last.params.Bucket = "mine"

\* C3: the request of every operation is the caller's options with the
\* fields the operation sets written last: Bucket is the bound identifier,
\* Key, CopySource and Body are the method's arguments where the operation
\* sets them, and every other field of the options is carried unchanged.
C3_OptionsMerging ==
    IsCall =>
        LET R == Reserved(last.op)
        IN /\ DOMAIN last.params = DOMAIN last.opts \cup R
           /\ \A f \in DOMAIN last.opts \ R : last.params[f] = last.opts[f]
           /\ last.params.Bucket = BoundBucket
           /\ "Key" \in R =>
                 last.params.Key = (IF last.op = "Bucket.copy" THEN last.a2 ELSE last.a1)
           /\ "CopySource" \in R => last.params.CopySource = BoundBucket \o "/" \o last.a1
           /\ "Body" \in R => last.params.Body = last.a2

\* put on a handle for "mine" with options {Bucket: "other", ..., Foo: "1"}.
W_C3 ==
    /\ IsCall
    /\ last.op = "Bucket.put"
    /\ last.optsRef = "o1"
    /\ handles[last.this].bucket = "mine"
    /\ last.params.Bucket = "mine"
    /\ last.params.Foo = "1"
    /\ last.params.Body # last.opts.Body

\* C4: for every operation other than the two has operations, a callback
\* that carries an error rejects the promise with that very value; a
\* container-level get whose probe succeeds resolves to a handle bound to
\* the client and bucket it was called with.
C4_PassThroughErrors ==
    /\ (FirstCallback /\ calls[last.id].op \notin HasOps /\ Truthy(last.err)) =>
          /\ calls[last.id].state = "rejected"
          /\ calls[last.id].value = last.err
    /\ \A i \in DOMAIN calls :
          (calls[i].op \notin HasOps /\ ~calls[i].threw /\ calls[i].state = "rejected") =>
              calls[i].value \in {NotFound, AccessDenied}
    /\ (IsCall /\ last.op = "get") =>
          calls[last.id].captured = [client |-> last.client, bucket |-> last.bucket]
    /\ (FirstCallback /\ calls[last.id].op = "get" /\ ~Truthy(last.err)) =>
          LET c == calls[last.id]
          IN /\ c.state = "fulfilled"
             /\ c.value.t = "Bucket"
             /\ handles[c.value.ref] = [client |-> c.captured.client,
                                         bucket |-> c.captured.bucket]

\* An entry-level get was answered with AccessDenied and rejected with it.
W_C4 ==
    /\ FirstCallback
    /\ calls[last.id].op = "Bucket.get"
    /\ last.err = AccessDenied
    /\ calls[last.id].state = "rejected"
    /\ calls[last.id].value = AccessDenied

\* C5 (as amended): container-level get fetches no data, it only probes the
\* container; when the probe carries an error, as it does for an absent
\* container, get itself rejects and no handle comes to exist, so nothing
\* is left to fail at a later use; when the probe carries no error get
\* resolves to a handle, whatever the probe's data.
C5_GetFailsAtGet ==
    /\ (IsCall /\ last.op = "get") => last.method = "headBucket"
    /\ (FirstCallback /\ calls[last.id].op = "get" /\ Truthy(last.err)) =>
          /\ calls[last.id].state = "rejected"
          /\ calls[last.id].value.t # "Bucket"
    /\ (FirstCallback /\ calls[last.id].op = "get" /\ ~Truthy(last.err)) =>
          /\ calls[last.id].state = "fulfilled"
          /\ calls[last.id].value.t = "Bucket"
    /\ Len(handles) = Cardinality({i \in DOMAIN calls :
                           calls[i].state = "fulfilled" /\ calls[i].value.t = "Bucket"})

\* get of an absent container: the probe said NotFound, get rejected, no handle exists.
W_C5 ==
    /\ FirstCallback
    /\ calls[last.id].op = "get"
    /\ last.err = NotFound
    /\ calls[last.id].state = "rejected"
    /\ handles = << >>

\* C5 (as stated): getting an absent container does not fail at get.
CE_C5_AbsentGetDoesNotFail ==
    (FirstCallback /\ calls[last.id].op = "get" /\ last.err = NotFound) =>
        calls[last.id].state # "rejected"

\* C6: every call issues exactly one backend request; once its callback has
\* been invoked its promise is settled, and no later step, a further
\* invocation of the callback included, changes the settled state or value
\* or issues another request.
C6_SettlesOnce ==
    /\ [](\A i \in DOMAIN calls :
             /\ calls[i].requests = 1
             /\ calls[i].invoked => calls[i].state \in {"fulfilled", "rejected"})
    /\ [][\A i \in DOMAIN calls :
             calls[i].state # "pending" =>
                 /\ calls'[i].state = calls[i].state
                 /\ calls'[i].value = calls[i].value
                 /\ calls'[i].requests = calls[i].requests]_vars

\* A callback was invoked again, with an error, on a promise already fulfilled.
W_C6 ==
    /\ AgainCallback
    /\ Truthy(last.err)
    /\ calls[last.id].state = "fulfilled"

\* C7: copy(source, target, opts) on a handle bound to b requests
\* CopySource = b/source, Key = target and Bucket = b, whatever opts holds.
C7_CopyRequest ==
    (IsCall /\ last.op = "Bucket.copy") =>
        LET b == handles[last.this].bucket
        IN /\ last.method = "copyObject"
           /\ last.params.CopySource = b \o "/" \o last.a1
           /\ last.params.Key = last.a2
           /\ last.params.Bucket = b

\* copy("x.txt", "y.txt", o1) on a handle for "mine", o1 naming its own three fields.
W_C7 ==
    /\ IsCall
    /\ last.op = "Bucket.copy"
    /\ last.a1 = "x.txt"
    /\ last.a2 = "y.txt"
    /\ last.optsRef = "o1"
    /\ handles[last.this].bucket = "mine"
    /\ last.params.CopySource = "mine/x.txt"

C9_OptsUntouched ==
    /\ \A o \in DOMAIN heap : heap[o] = InitialHeap[o]
    /\ (IsCall /\ last.optsRef # "none") => heap[last.optsRef] = last.opts

\* A call was given o1 and overrode o1's Bucket, Key and CopySource in its request.
W_C9 ==
    /\ IsCall
    /\ last.optsRef = "o1"
    /\ last.op = "Bucket.copy"
    /\ last.params.Bucket # last.opts.Bucket
    /\ last.params.Key # last.opts.Key
    /\ last.params.CopySource # last.opts.CopySource

\* C10: when the client method throws synchronously the call still
\* returns a promise, rejected with the thrown value, for the has
\* operations as for the others.
C10_SyncThrowRejects ==
    /\ \A i \in DOMAIN calls :
          /\ calls[i].returned
          /\ calls[i].threw =>
                /\ calls[i].state = "rejected"
                /\ calls[i].value = Thrown
                /\ ~calls[i].inflight
    /\ (IsCall /\ last.threw) => calls[last.id].threw

\* A has call whose client method threw: its promise is rejected.
W_C10 ==
    \E i \in DOMAIN calls :
        /\ calls[i].op \in HasOps
        /\ calls[i].threw
        /\ calls[i].returned
        /\ calls[i].state = "rejected"

====
